---- MODULE Spec2Model ----
(***************************************************************************)
(* Adapter geometry and validation engine of curbonomix-backend.           *)
(*                                                                         *)
(* Two adapter designers exist in the repository:                          *)
(*   - the rotation variant, adapter.design_adapter (src/adapter.py),      *)
(*   - the baffle variant, app.design_adapter (src/app.py), which the      *)
(*     optimizer app.ai_autotune re-runs over a grid of candidates.        *)
(*                                                                         *)
(* Numbers.  The code computes in floating point.  The model computes the  *)
(* same formulas exactly, on integers, in these units:                     *)
(*   plan lengths and coordinates   quarter inches   (Inch(n) is n inches)    *)
(*   heights                        hundredths of an inch                  *)
(*   static pressure                1/360000 in.wg   (SpU(n) is n in.wg)   *)
(*   air flow                       5/16 cfm    (Cfm(n) is n cfm)          *)
(*   scores                         1/360000 of a score point              *)
(* Inputs are drawn from grids on which every division below is exact,    *)
(* except the velocity pressure at a flow that is not a multiple of        *)
(* 445/16 cfm, which is truncated by less than 1/360000 in.wg.             *)
(***************************************************************************)
EXTENDS Integers, Sequences, FiniteSets, TLC

VARIABLES
    req,    \* the request handed to adapter.design_adapter (rotation variant)
    res,    \* what that call produced: a design, a failure result, or a raise
    data,   \* the JSON body posted to /api/adapter/preview or /api/ai/autotune
    design, \* the design returned by adapter_preview
    cands,  \* the candidates ai_autotune built, in the order it built them
    tune,   \* the response of ai_autotune
    query,  \* a static-pressure question: one duct run, two sizes of its new opening
    answer, \* the static pressure of the design for each of the two sizes
    heap,   \* the dicts of the process, by address; heap[1] is DEFAULT_PARAMS
    calls,  \* the preview and optimizer calls made so far, with what they were
            \* given and the addresses of what they returned
    wall,   \* a length handed to split_length, in quarter inches
    panels, \* the parts split_length returned for it (none before the call)
    clock,  \* time.time(), in whole seconds
    jobs,   \* storage/jobs: for each job directory, which confirm request wrote
            \* each of its files last
    confirms \* the confirm requests: where each is in adapter_confirm, its job_key

vars == <<req, res, data, design, cands, tune, query, answer, heap, calls,
          wall, panels, clock, jobs, confirms>>

----------------------------------------------------------------------------
(* Generic helpers *)

Inch(n) == 4 * n

Max(a, b) == IF a >= b THEN a ELSE b

Min(a, b) == IF a <= b THEN a ELSE b

Abs(a) == IF a >= 0 THEN a ELSE -a

\* design.clamp / app.clamp: max(lo, min(hi, v))
clamp(v, lo, hi) == Max(lo, Min(hi, v))

\* Python's None; a dict is a function from its keys.
None == [none |-> TRUE]

EmptyDict == [k \in {} |-> 0]

\* Python truthiness of an opening record: None and {} are falsy.
Falsy(p) == p = None \/ DOMAIN p = {}

\* dict.get(k, d)
Get(p, k, d) == IF k \in DOMAIN p THEN p[k] ELSE d

Idle == [idle |-> TRUE]

----------------------------------------------------------------------------
(* src/design.py *)

MIN_H == 1200

MAX_H == 2400

\* pick_height(slope_factor, wind_speed_mph); slope in tenths, wind in mph,
\* 0 standing for an absent (falsy) argument.  Result in hundredths of an inch:
\* 12 + 12*(0.6*sf + 0.4*wind_term) = 12 + 7.2*sf + 4.8*wind_term.
pick_height(slope10, wind) ==
    LET sf10  == clamp(IF slope10 = 0 THEN 5 ELSE slope10, 0, 10)
        w     == Max(0, wind)
        wt480 == clamp(8 * (w - 90), 0, 480)
        h     == MIN_H + 72 * sf10 + wt480
    IN  clamp(h, MIN_H, MAX_H)

KEYS == <<"x", "y", "w", "l">>

\* validate_inputs.check(p, name)
check(p, name, L, W) ==
    IF Falsy(p) THEN <<>>
    ELSE
        LET missing == SelectSeq(KEYS, LAMBDA k : k \notin DOMAIN p)
            e1 == [i \in 1..Len(missing) |-> <<name, "missing", missing[i]>>]
            e2 == IF Get(p, "w", 0) <= 0 \/ Get(p, "l", 0) <= 0
                  THEN << <<name, "width/length must be positive.">> >> ELSE <<>>
            e3 == IF Get(p, "x", 0) < 0 \/ Get(p, "y", 0) < 0
                  THEN << <<name, "x/y must be >= 0.">> >> ELSE <<>>
            e4 == IF \/ Get(p, "x", 0) + Get(p, "w", 0) > L
                     \/ Get(p, "y", 0) + Get(p, "l", 0) > W
                  THEN << <<name, "cutout exceeds curb top frame bounds.">> >> ELSE <<>>
        IN  e1 \o e2 \o e3 \o e4

\* validate_inputs(L, W, H, supply, ret): the ordered list of error strings
validate_inputs(L, W, H, supply, ret) ==
    LET e1 == IF L <= 0 \/ W <= 0
              THEN << <<"Length and width must be positive.">> >> ELSE <<>>
        e2 == IF H < MIN_H \/ H > MAX_H
              THEN << <<"Height must be between 12.0 and 24.0 inches.">> >> ELSE <<>>
    IN  e1 \o e2 \o check(supply, "Supply", L, W) \o check(ret, "Return", L, W)

----------------------------------------------------------------------------
(* src/adapter.py: the rotation variant *)

\* _center(p) = (x + w/2, y + l/2)
_center(p) == <<p.x + p.w \div 2, p.y + p.l \div 2>>

\* ccw(A, B, C) of _would_cross
ccw(A, B, C) == (C[2] - A[2]) * (B[1] - A[1]) > (B[2] - A[2]) * (C[1] - A[1])

\* inter(A, B, C, D) of _would_cross
inter(A, B, C, D) ==
    /\ ccw(A, C, D) # ccw(B, C, D)
    /\ ccw(A, B, C) # ccw(A, B, D)

_would_cross(bottom_supply, bottom_return, top_supply, top_return) ==
    inter(_center(bottom_supply), _center(top_supply),
          _center(bottom_return), _center(top_return))

\* mutant: the opening's own size is not subtracted
rotate180_corner(p, tL, tW) ==
    [p EXCEPT !.x = tL - p.x, !.y = tW - p.y]

\* {**p, "x": tL - p["x"] - p["w"], "y": tW - p["y"] - p["l"]}
rotate180(p, tL, tW) ==
    [p EXCEPT !.x = tL - p.x - p.w, !.y = tW - p.y - p.l]

\* center_offsets(LL, WW, l, w)
center_offsets(LL, WW, l, w) == <<(LL - l) \div 2, (WW - w) \div 2>>

\* move(p, off)
move(p, off) == [p EXCEPT !.x = p.x + off[1], !.y = p.y + off[2]]

\* midpoint(P, Q)
midpoint(P, Q) == <<(P[1] + Q[1]) \div 2, (P[2] + Q[2]) \div 2>>

ROT_NOTES ==
    << "Outer shell is 4-sided rectangle.",
       "Supply and return paths kept separate; top auto-rotated if needed to avoid crossing.",
       "If your specific geometry requires dog-legging, we recommend manual review." >>

\* mutant: the requested height is used as given
adapter_height_unclamped(r) ==
    IF r.height # 0 THEN r.height
    ELSE pick_height(r.slope_factor, r.wind_speed_mph)

\* The height the designer works with: requested or derived, then clamped.
adapter_height(r) ==
    LET H0 == IF r.height # 0 THEN r.height
              ELSE pick_height(r.slope_factor, r.wind_speed_mph)
    IN  Max(MIN_H, Min(MAX_H, H0))

\* design_adapter(req) of src/adapter.py.  A raise is the outcome
\* [raised |-> TRUE]: _center subscripts None or looks up a missing key.
adapter_design_adapter(r) ==
    LET bottom == r.existing
        top    == r.new
        H  == adapter_height(r)
        bL == bottom.length
        bW == bottom.width
        tL == top.length
        tW == top.width
        bs == bottom.supply
        br == bottom.return
        ts == top.supply
        tr == top.return
        errs == validate_inputs(bL, bW, H, bs, br) \o validate_inputs(tL, tW, H, ts, tr)
    IN
    IF errs # <<>> THEN [ok |-> FALSE, errors |-> errs]
    ELSE IF Falsy(bs) \/ Falsy(br) \/ Falsy(ts) \/ Falsy(tr) THEN [raised |-> TRUE]
    ELSE
        LET rotate_top == _would_cross(bs, br, ts, tr)
            ts1 == IF rotate_top THEN rotate180(ts, tL, tW) ELSE ts
            tr1 == IF rotate_top THEN rotate180(tr, tL, tW) ELSE tr
            pad == Inch(2)
            L == Max(bL, tL) + 2 * pad
            W == Max(bW, tW) + 2 * pad
            b_off == center_offsets(L, W, bL, bW)
            t_off == center_offsets(L, W, tL, tW)
            bsA == move(bs, b_off)
            brA == move(br, b_off)
            tsA == move(ts1, t_off)
            trA == move(tr1, t_off)
            ms == midpoint(_center(bsA), _center(tsA))
            mr == midpoint(_center(brA), _center(trA))
        IN  [ok |-> TRUE,
             adapter |->
               [length |-> L, width |-> W, height |-> H,
                bottom_rect |-> [x |-> b_off[1], y |-> b_off[2], l |-> bL, w |-> bW],
                top_rect |-> [x |-> t_off[1], y |-> t_off[2], l |-> tL, w |-> tW,
                              rotated_180 |-> rotate_top],
                bottom_supply |-> bsA, bottom_return |-> brA,
                top_supply |-> tsA, top_return |-> trA,
                divider |-> [x1 |-> ms[1], y1 |-> ms[2], x2 |-> mr[1], y2 |-> mr[2]],
                notes |-> ROT_NOTES,
                \* cog x, y in quarter inches, z in thousandths of an inch
                cog |-> [x |-> L \div 2, y |-> W \div 2, z |-> 5 * H]]]

----------------------------------------------------------------------------
(* src/app.py: the baffle variant *)

\* n in.wg in static-pressure units
SpU(n) == 360000 * n

\* center_of(o) = (x + W/2, y + L/2)
center_of(o) == <<o.x + o.W \div 2, o.y + o.L \div 2>>

\* mutant: the y axis is forgotten
rects_overlap_x_only(a, b) ==
    ~ (a.x + a.W <= b.x \/ b.x + b.W <= a.x)

rects_overlap(a, b) ==
    ~ (\/ a.x + a.W <= b.x
       \/ b.x + b.W <= a.x
       \/ a.y + a.L <= b.y
       \/ b.y + b.L <= a.y)

\* plan_path(a, b, corridor_width, height, rise): horizontal, then vertical
plan_path(a, b, corridor_width, height, rise) ==
    LET ca  == center_of(a)
        cb  == center_of(b)
        mid == <<cb[1], ca[2]>>
    IN  << [from |-> ca, to |-> mid, rise |-> rise \div 2,
            width |-> corridor_width, height |-> height],
           [from |-> mid, to |-> cb, rise |-> rise \div 2,
            width |-> corridor_width, height |-> height] >>

\* n cfm in flow units of 5/16 cfm (n a multiple of 5)
Cfm(n) == (16 * n) \div 5

\* n times 445/16 cfm (27.8125 cfm), the flows of the grids, in flow units
Flow(n) == 89 * n

\* estimate_sp(cfm, area_in2, eq_len_ft, k_total) with friction_rate = 0.08.
\*   cfm      in units of 5/16 cfm          area in quarter square inches
\*   eq_len   in quarter inches             k   in hundredths
\* v_fpm/4005 = cfm/(area/144)/4005 is then 4*cfm/(89*area), so
\*   vp = 16*cfm^2/(7921*area^2), minor = k*vp,
\*   friction = (len/48/100)*0.08 = len/60000,
\* and in units of 1/360000 in.wg (the product per*cfm^2 is divided by 7921
\* in two parts to stay within the integers):
estimate_sp(cfm, area, eq_len, k_total) ==
    LET a        == Max(area, 4)
        friction == 6 * eq_len
        per      == (3600 * k_total * 16) \div (a * a)
        c2       == cfm * cfm
        minor    == per * (c2 \div 7921) + (per * (c2 % 7921)) \div 7921
    IN  friction + minor

\* mutant: the seat corner is taken for the seat centre
cog_offset_corner(baseW, baseL, seatX, seatY, seatW, seatL) ==
    LET dx == (seatX - baseW \div 2) \div 2
        dy == (seatY - baseL \div 2) \div 2
    IN  dx * dx + dy * dy

\* cog_offset(...) = hypot(dx, dy); the model carries its square, in square
\* quarter inches, and compares squares.
cog_offset(baseW, baseL, seatX, seatY, seatW, seatL) ==
    LET base_cx == baseW \div 2
        base_cy == baseL \div 2
        top_cx  == seatX + seatW \div 2
        top_cy  == seatY + seatL \div 2
        dx == (top_cx - base_cx) \div 2
        dy == (top_cy - base_cy) \div 2
    IN  dx * dx + dy * dy

\* cog <= limit, cog given by its square
cog_within(cogSq, limit) == limit >= 0 /\ cogSq <= limit * limit

\* round(hypot, 2) in hundredths of an inch, from the square in quarter inches:
\* the integer r nearest to 25*sqrt(cogSq), (2r-1)^2 <= 2500*cogSq < (2r+1)^2
\* (searched upward from r in steps that halve)
RECURSIVE round_cog_from(_, _, _)
round_cog_from(cogSq, r, step) ==
    IF step = 0 THEN r
    ELSE IF (2 * (r + step) - 1) * (2 * (r + step) - 1) <= 2500 * cogSq
         THEN round_cog_from(cogSq, r + step, step)
         ELSE round_cog_from(cogSq, r, step \div 2)

round_cog(cogSq) == round_cog_from(cogSq, 0, 1024)

\* round(staticPressure, 3): to the nearest 1/1000 in.wg
round_sp(sp) == 360 * ((sp + 180) \div 360)

\* the buffered corridor of a path (supBuf, retBuf)
buffer_of(path, cw) ==
    [x |-> Min(path[1].from[1], path[2].to[1]) - cw \div 2,
     y |-> Min(path[1].from[2], path[2].to[2]) - cw \div 2,
     W |-> Abs(path[2].to[1] - path[1].from[1]) + cw,
     L |-> Abs(path[2].to[2] - path[1].from[2]) + cw]

\* mutant: an overlap adds no baffle
baffles_none(supBuf, retBuf, p, curbW, curbL) == <<>>

\* the two baffles added when the corridors overlap
baffles_of(supBuf, retBuf, p, curbW, curbL) ==
    LET xMid == Max(Min(supBuf.x + supBuf.W, retBuf.x + retBuf.W) - p.corridorWidth \div 2, 0)
        yMid == Max(Min(supBuf.y + supBuf.L, retBuf.y + retBuf.L) - p.corridorWidth \div 2, 0)
        centerX == Min(Max(xMid, 0), curbW)
        centerY == Min(Max(yMid, 0), curbL)
    IN  << [kind |-> "vertical", from |-> <<centerX, 0>>, to |-> <<centerX, curbL>>,
            thickness |-> p.baffleThickness],
           [kind |-> "horizontal", from |-> <<0, centerY>>, to |-> <<curbW, centerY>>,
            thickness |-> p.baffleThickness] >>

\* mutant: the corridor width is counted into the length
path_len_with_width(path) ==
    Abs(path[1].to[1] - path[1].from[1]) + Abs(path[2].to[2] - path[2].from[2]) + path[1].width

\* equivalent length of an L-shaped path
path_len(path) ==
    Abs(path[1].to[1] - path[1].from[1]) + Abs(path[2].to[2] - path[2].from[2])

\* mutant: min for max
area_in2_min(o) == Min((o.W * o.L) \div 16, 4)

\* supAreaIn2 / retAreaIn2 = max(W*L/4, 1), in quarter square inches
area_in2(o) == Max((o.W * o.L) \div 16, 4)

\* kTotal = 0.25*2 + 0.15*2, in hundredths
kTotal == 25 * 2 + 15 * 2

\* mutant: the supply loss is counted for both ducts
static_pressure_supply_twice(p, newSupply, newReturn, supplyPath, returnPath) ==
    2 * estimate_sp(p.cfmSupply, area_in2(newSupply), path_len(supplyPath), kTotal)

\* staticPressure = spSup + spRet
static_pressure(p, newSupply, newReturn, supplyPath, returnPath) ==
    estimate_sp(p.cfmSupply, area_in2(newSupply), path_len(supplyPath), kTotal)
    + estimate_sp(p.cfmReturn, area_in2(newReturn), path_len(returnPath), kTotal)

\* the notes of the report; the numbers formatted into them are left out
report_notes(separationOK, envelopeOK, staticPressureOK, cogOK) ==
    << "Exterior profile fixed to 4-sided rectangle.",
       IF separationOK THEN "S/R corridors separate."
       ELSE "Cross detected - internal baffles added.",
       IF envelopeOK THEN "Height within envelope."
       ELSE "Adapter height violates envelope.",
       IF staticPressureOK THEN "Total SP <= spLimit."
       ELSE "Total SP > spLimit - enlarge area or shorten path.",
       IF cogOK THEN "COG offset within cogMaxOffset."
       ELSE "COG offset exceeds cogMaxOffset - recenter seat or rebalance." >>

\* design_adapter(old_rtu, new_rtu, p) of src/app.py
design_adapter(old_rtu, new_rtu, p) ==
    LET curbL == Max(old_rtu.curb.L, new_rtu.curb.L) + Inch(6)
        curbW == Max(old_rtu.curb.W, new_rtu.curb.W) + Inch(6)
        curbH == clamp(Get(new_rtu.curb, "H", 2000), p.envelopeMin, p.envelopeMax)
        seat  == [L |-> new_rtu.curb.L, W |-> new_rtu.curb.W,
                  x |-> (curbW - new_rtu.curb.W) \div 2,
                  y |-> (curbL - new_rtu.curb.L) \div 2]
        oldSupply == old_rtu.supply
        oldReturn == old_rtu.return
        newSupply == [new_rtu.supply EXCEPT !.x = seat.x + new_rtu.supply.x,
                                            !.y = seat.y + new_rtu.supply.y]
        newReturn == [new_rtu.return EXCEPT !.x = seat.x + new_rtu.return.x,
                                            !.y = seat.y + new_rtu.return.y]
        \* path heights in 1/10000 in: clamp(curbH*0.45, min*0.4, max*0.7)
        hSup == clamp(45 * curbH, 40 * p.envelopeMin, 70 * p.envelopeMax)
        hRet == clamp(45 * curbH, 40 * p.envelopeMin, 70 * p.envelopeMax)
        supplyPath == plan_path(oldSupply, newSupply, p.corridorWidth, hSup, p.defaultRise)
        returnPath == plan_path(oldReturn, newReturn, p.corridorWidth, hRet, p.defaultRise)
        supBuf == buffer_of(supplyPath, p.corridorWidth)
        retBuf == buffer_of(returnPath, p.corridorWidth)
        separationOK == ~ rects_overlap(supBuf, retBuf)
        baffles == IF ~ separationOK THEN baffles_of(supBuf, retBuf, p, curbW, curbL)
                   ELSE <<>>
        envelopeOK == curbH >= p.envelopeMin /\ curbH <= p.envelopeMax
        profileSidesOK == TRUE
        staticPressure == static_pressure(p, newSupply, newReturn, supplyPath, returnPath)
        staticPressureOK == staticPressure <= p.spLimit
        cogOffsetIn == cog_offset(curbW, curbL, seat.x, seat.y, seat.W, seat.L)
        cogOK == cog_within(cogOffsetIn, p.cogMaxOffset)
    IN  [curb |-> [L |-> curbL, W |-> curbW, H |-> curbH],
         seat |-> seat,
         supplyPath |-> supplyPath,
         returnPath |-> returnPath,
         baffles |-> baffles,
         report |->
           [separationOK |-> separationOK \/ Len(baffles) > 0,
            distributionOK |-> TRUE,
            envelopeOK |-> envelopeOK,
            profileSidesOK |-> profileSidesOK,
            staticPressure |-> round_sp(staticPressure),
            staticPressureOK |-> staticPressureOK,
            cogOffsetIn |-> round_cog(cogOffsetIn),
            cogOK |-> cogOK,
            notes |-> report_notes(separationOK, envelopeOK, staticPressureOK, cogOK)]]

----------------------------------------------------------------------------
(* src/app.py: the optimizer *)

\* the seat offsets tried, in the order of the loops
OFFSETS == <<0, -2, 2>>

\* the value of e, computed once, in The({ f(x) : x \in {e} })
The(S) == CHOOSE x \in S : TRUE

\* the corridor widenings tried, in the order of the loop
WIDENINGS == <<0, 2, 4, 6>>

\* mutant: the margin is subtracted without the floor at 0
target_sp_unfloored(params) == params.spLimit - 72000

\* target_sp = max(0.0, params["spLimit"] - 0.20)
target_sp_of(params) == Max(0, params.spLimit - 72000)

\* the item of one pass, from tmp and the design after the stores of the pass
item_of(params, tmp, offx, offy, d0, seat, report) ==
    LET target_sp == target_sp_of(params)
        ok == /\ report.separationOK
              /\ report.envelopeOK
              /\ report.cogOK
              /\ report.staticPressure <= target_sp
        \* (target_sp - sp)*10 - |seat.x|*0.1 - |seat.y|*0.1 - (0 | 1000)
        score == (target_sp - report.staticPressure) * 10
                 - Abs(seat.x) * 9000 - Abs(seat.y) * 9000
                 - (IF report.separationOK THEN 0 ELSE SpU(1000))
    IN  [params |-> tmp,
         seat_offset |-> <<offx, offy>>,
         design |-> [d0 EXCEPT !.seat = seat, !.report = report],
         score |-> score,
         ok |-> ok]

\* one pass of the loop body: the item built for (cw, offx, offy)
candidate(old_rtu, new_rtu, params, cw0, offx, offy) ==
    The({ The({ The({ item_of(params, tmp, offx, offy, d0, seat, report)
                      \* design["report"]["cogOffsetIn"] = ...; design["report"]["cogOK"] = ...
                      : report \in { [d0.report EXCEPT !.cogOffsetIn = round_cog(cog),
                                                      !.cogOK = cog_within(cog, tmp.cogMaxOffset)]
                                     : cog \in { cog_offset(d0.curb.W, d0.curb.L,
                                                            seat.x, seat.y, seat.W, seat.L) } } })
                \* design["seat"]["x"] += offx; design["seat"]["y"] += offy
                : seat \in { [d0.seat EXCEPT !.x = @ + Inch(offx), !.y = @ + Inch(offy)] } })
          : tmp \in { [params EXCEPT !.corridorWidth = Min(Inch(16), cw0)] },
            d0  \in { design_adapter(old_rtu, new_rtu,
                                     [params EXCEPT !.corridorWidth = Min(Inch(16), cw0)]) } })

\* the items in the order the three nested loops build them
candidates(old_rtu, new_rtu, params) ==
    [k \in 1..(Len(WIDENINGS) * Len(OFFSETS) * Len(OFFSETS)) |->
        candidate(old_rtu, new_rtu, params,
                  params.corridorWidth + Inch(WIDENINGS[((k - 1) \div 9) + 1]),
                  OFFSETS[(((k - 1) \div 3) % 3) + 1],
                  OFFSETS[((k - 1) % 3) + 1])]

\* mutant: a later candidate of equal score replaces the best
replaces_on_tie(item, best) == best = None \/ item.score >= best.score

\* (best is None) or (item["score"] > best["score"])
replaces(item, best) == best = None \/ item.score > best.score

\* mutant: only a candidate with ok can be the best
best_passing(items, n) ==
    IF \E i \in 1..n : items[i].ok
    THEN items[CHOOSE i \in 1..n : items[i].ok /\ \A j \in 1..n : items[j].ok => i <= j]
    ELSE None

\* best after the first n items
RECURSIVE best_of(_, _)
best_of(items, n) ==
    IF n = 0 THEN None
    ELSE LET best == best_of(items, n - 1)
         IN  IF replaces(items[n], best) THEN items[n] ELSE best

\* the response of ai_autotune for the items it built
autotune_response(params, items) ==
    [ok |-> TRUE, target_sp |-> target_sp_of(params), result |-> best_of(items, Len(items))]

----------------------------------------------------------------------------
(* Requests of the rotation variant *)

\* largest opening offset (inches) of the top footprint's grid
MaxXY == 3

Opening(x, y, w, l) == [x |-> Inch(x), y |-> Inch(y), w |-> Inch(w), l |-> Inch(l)]

Footprint(L, W, s, r) == [length |-> Inch(L), width |-> Inch(W), supply |-> s, return |-> r]

Request(b, t, h, sf, wind) ==
    [existing |-> b, new |-> t, height |-> h, slope_factor |-> sf, wind_speed_mph |-> wind]

\* 1x1 openings on the inch grid
GridOpenings(n) == {Opening(x, y, 1, 1) : x \in 0..n, y \in 0..n}

\* opening records that validation is meant to reject
DefectOpenings ==
    { None, EmptyDict,
      [x |-> Inch(0), y |-> Inch(0), w |-> Inch(1)],
      [y |-> Inch(1), w |-> Inch(1), l |-> Inch(1)],
      Opening(0, 0, 0, 1),
      Opening(0, 0, 1, -1),
      Opening(-1, 0, 1, 1),
      Opening(MaxXY + 2, 0, 1, 1),
      Opening(0, MaxXY + 1, 1, 2) }

\* valid geometry: every combination of grid openings, all fields present
GeoRequests ==
    { Request(Footprint(2, 2, bs, br), Footprint(MaxXY + 1, MaxXY + 1, ts, tr), 1800, 0, 0) :
        bs \in GridOpenings(1), br \in GridOpenings(1),
        ts \in GridOpenings(MaxXY), tr \in GridOpenings(MaxXY) }

\* one defective (or sound) opening in each slot, sound or degenerate footprints
DefectRequests ==
    { Request(Footprint(bd[1], bd[2], bs, Opening(1, 1, 1, 1)),
              Footprint(td[1], td[2], Opening(0, 1, 1, 1), tr), h, 0, 0) :
        h \in {1800, 3000},
        bd \in {<<2, 2>>, <<0, 2>>}, td \in {<<MaxXY + 1, MaxXY + 1>>, <<MaxXY + 1, -1>>},
        bs \in DefectOpenings \cup {Opening(0, 0, 1, 1)},
        tr \in DefectOpenings \cup {Opening(1, 0, 1, 1)} }

\* requested heights (hundredths of an inch; 0 = absent), slope and wind
HeightRequests ==
    { Request(Footprint(2, 2, Opening(0, 0, 1, 1), Opening(1, 1, 1, 1)),
              Footprint(2, 2, Opening(0, 0, 1, 1), Opening(1, 1, 1, 1)), h, sf, wind) :
        h \in {0, 800, 1200, 1560, 2400, 2401, 3000}, sf \in {0, 5, 10}, wind \in {0, 90, 120, 200} }

RotRequests == GeoRequests \cup DefectRequests \cup HeightRequests

----------------------------------------------------------------------------
(* State machine *)

\* A request of the rotation variant is pending; nothing has been produced yet.
InitRotation ==
    /\ req \in RotRequests
    /\ res = Idle
    /\ data = Idle
    /\ design = Idle
    /\ cands = Idle
    /\ tune = Idle
    /\ query = Idle
    /\ answer = Idle
    /\ heap = Idle
    /\ calls = Idle
    /\ wall = Idle
    /\ panels = Idle
    /\ clock = Idle
    /\ jobs = Idle
    /\ confirms = Idle

\* adapter.design_adapter handles the pending request.
AdapterDesign ==
    /\ req # Idle
    /\ res = Idle
    /\ res' = adapter_design_adapter(req)
    /\ UNCHANGED <<req, data, design, cands, tune, query, answer, heap, calls,
                 wall, panels, clock, jobs, confirms>>

NextRotation == AdapterDesign

SpecRotation == InitRotation /\ [][NextRotation]_vars

----------------------------------------------------------------------------
(* Request bodies of the baffle variant *)

\* opening offsets of the preview grid are 0, 2, ..., 2*MaxStep inches
MaxStep == 2

Duct(x, y, W, L) == [x |-> Inch(x), y |-> Inch(y), W |-> Inch(W), L |-> Inch(L)]

\* H in hundredths of an inch; 0 = the curb record has no H
Curb(L, W, H) ==
    IF H = 0 THEN [L |-> Inch(L), W |-> Inch(W)]
    ELSE [L |-> Inch(L), W |-> Inch(W), H |-> H]

Rtu(c, s, r) == [curb |-> c, supply |-> s, return |-> r]

DEFAULT_PARAMS ==
    [envelopeMin |-> 1600, envelopeMax |-> 3200,
     spLimit |-> SpU(2),
     cfmSupply |-> Cfm(2000), cfmReturn |-> Cfm(2000),
     corridorWidth |-> Inch(10),
     defaultRise |-> 800,
     cogMaxOffset |-> Inch(6),
     baffleThickness |-> Inch(1)]

\* DEFAULT_PARAMS with the given limits, flows (multiples of 445/16 cfm) and
\* corridor width
Params(spLimit, cfm, corridorWidth, cogMaxOffset) ==
    [DEFAULT_PARAMS EXCEPT !.spLimit = spLimit,
                           !.cfmSupply = Flow(cfm), !.cfmReturn = Flow(cfm),
                           !.corridorWidth = Inch(corridorWidth),
                           !.cogMaxOffset = Inch(cogMaxOffset)]

\* data.get("params", DEFAULT_PARAMS)
params_of(d) == Get(d, "params", DEFAULT_PARAMS)

\* scenario A of the specification: no params in the body
ScenarioA ==
    [old_rtu |-> Rtu(Curb(40, 30, 2000), Duct(5, 5, 6, 8), Duct(20, 5, 6, 8)),
     new_rtu |-> Rtu(Curb(42, 32, 2200), Duct(5, 5, 6, 8), Duct(20, 5, 6, 8))]

Steps(n) == {2 * i : i \in 0..n}

\* side of the footprints of the preview grid, inches
Side == 2 * MaxStep + 2

PreviewBodies ==
    { [old_rtu |-> Rtu(Curb(Side, Side, 2000), Duct(osx, osy, 2, 2), Duct(orp[1], orp[2], 2, 2)),
       new_rtu |-> Rtu(Curb(nl, Side, H), Duct(nsx, nsy, 2, 2), Duct(nrp[1], nrp[2], 2, 2)),
       params  |-> Params(SpU(2), 1, cw, 6)] :
        osx \in Steps(MaxStep), osy \in Steps(MaxStep),
        nsx \in Steps(MaxStep), nsy \in Steps(MaxStep),
        orp \in {<<2 * MaxStep, 0>>, <<0, 2 * MaxStep>>},
        nrp \in {<<2 * MaxStep, 0>>, <<2, 2 * MaxStep>>},
        nl \in {Side, Side + 2},
        H \in {0, 1000, 2200, 4000},
        cw \in {1, 2, 10} }
    \cup {ScenarioA}

InitPreview ==
    /\ req = Idle
    /\ res = Idle
    /\ data \in PreviewBodies
    /\ design = Idle
    /\ cands = Idle
    /\ tune = Idle
    /\ query = Idle
    /\ answer = Idle
    /\ heap = Idle
    /\ calls = Idle
    /\ wall = Idle
    /\ panels = Idle
    /\ clock = Idle
    /\ jobs = Idle
    /\ confirms = Idle

\* adapter_preview: design_adapter on the posted old_rtu, new_rtu and params
AdapterPreview ==
    /\ data # Idle
    /\ design = Idle
    /\ design' = design_adapter(data.old_rtu, data.new_rtu, params_of(data))
    /\ UNCHANGED <<req, res, data, cands, tune, query, answer, heap, calls,
                 wall, panels, clock, jobs, confirms>>

NextPreview == AdapterPreview

SpecPreview == InitPreview /\ [][NextPreview]_vars

\* opening offsets of the optimizer grid are 0, 2, ..., 2*MaxTuneStep inches
MaxTuneStep == 1

TuneBodies ==
    { [old_rtu |-> Rtu(Curb(ol, 6, 2000), Duct(osx, 2, 2, 2), Duct(4, 4, 2, 2)),
       new_rtu |-> Rtu(Curb(6, 6, 4000), Duct(nsx, nsy, 2, 2), Duct(4, 2, 2, 2)),
       params  |-> Params(spLimit, cfm, cw, cogMax)] :
        ol \in {6, 8},
        osx \in Steps(MaxTuneStep),
        nsx \in Steps(MaxTuneStep), nsy \in Steps(MaxTuneStep),
        spLimit \in {36000, 720000, 3600000},
        cfm \in {0, 1, 2},
        cw \in {1, 10, 12},
        cogMax \in {0, 1, 6} }
    \cup {ScenarioA}

InitAutotune ==
    /\ req = Idle
    /\ res = Idle
    /\ data \in TuneBodies
    /\ design = Idle
    /\ cands = Idle
    /\ tune = Idle
    /\ query = Idle
    /\ answer = Idle
    /\ heap = Idle
    /\ calls = Idle
    /\ wall = Idle
    /\ panels = Idle
    /\ clock = Idle
    /\ jobs = Idle
    /\ confirms = Idle

\* ai_autotune: the grid search over corridor width and seat offset
AiAutotune ==
    /\ data # Idle
    /\ tune = Idle
    /\ cands' = candidates(data.old_rtu, data.new_rtu, params_of(data))
    /\ tune' = autotune_response(params_of(data), cands')
    /\ UNCHANGED <<req, res, data, design, query, answer, heap, calls,
                 wall, panels, clock, jobs, confirms>>

NextAutotune == AiAutotune

SpecAutotune == InitAutotune /\ [][NextAutotune]_vars

\* opening sides of the static-pressure questions are 1..MaxSize inches
MaxSize == 4

\* the sizes W x L for which the velocity-pressure term is a whole number of
\* static-pressure units at every flow of the grid
Sizes(n) == { s \in (1..n) \X (1..n) : 4608000 % (Max(s[1] * s[2], 4) * Max(s[1] * s[2], 4)) = 0 }

\* an opening of W x L inches centred at c (quarter inches)
DuctAt(c, W, L) == [x |-> c[1] - Inch(W) \div 2, y |-> c[2] - Inch(L) \div 2,
                    W |-> Inch(W), L |-> Inch(L)]

PressureQueries ==
    { [params |-> [Params(SpU(2), cfmR, 10, 6) EXCEPT !.cfmSupply = Flow(cfmS)],
       oldSupply |-> Duct(0, 0, 4, 4),
       oldReturn |-> Duct(4, 0, 2, 2),
       newReturn |-> Duct(8, 6, 2, 2),
       centre |-> c, sizeA |-> sa, sizeB |-> sb] :
        cfmS \in {0, 1, 3}, cfmR \in {0, 2},
        c \in {<<Inch(2), Inch(2)>>, <<Inch(4), Inch(8)>>},
        sa \in Sizes(MaxSize), sb \in Sizes(MaxSize) }

InitPressure ==
    /\ req = Idle
    /\ res = Idle
    /\ data = Idle
    /\ design = Idle
    /\ cands = Idle
    /\ tune = Idle
    /\ query \in PressureQueries
    /\ answer = Idle
    /\ heap = Idle
    /\ calls = Idle
    /\ wall = Idle
    /\ panels = Idle
    /\ clock = Idle
    /\ jobs = Idle
    /\ confirms = Idle

\* the static pressure the design reports when the new supply opening sits at
\* the queried centre with the given size
pressure_for(q, size) ==
    LET newSupply  == DuctAt(q.centre, size[1], size[2])
        supplyPath == plan_path(q.oldSupply, newSupply, q.params.corridorWidth, 0, q.params.defaultRise)
        returnPath == plan_path(q.oldReturn, q.newReturn, q.params.corridorWidth, 0, q.params.defaultRise)
        sp == static_pressure(q.params, newSupply, q.newReturn, supplyPath, returnPath)
    IN  [raw |-> sp, staticPressure |-> round_sp(sp), supLen |-> path_len(supplyPath)]

\* lines 119-127 and 139 of design_adapter, for both sizes of the question
EstimatePressure ==
    /\ query # Idle
    /\ answer = Idle
    /\ heap = Idle
    /\ calls = Idle
    /\ answer' = [a |-> pressure_for(query, query.sizeA), b |-> pressure_for(query, query.sizeB)]
    /\ UNCHANGED <<req, res, data, design, cands, tune, query, heap, calls,
                 wall, panels, clock, jobs, confirms>>

NextPressure == EstimatePressure

SpecPressure == InitPressure /\ [][NextPressure]_vars

----------------------------------------------------------------------------
(* The dicts behind the calls: who shares what *)

\* number of preview / optimizer calls followed
MaxCalls == 3

\* mutant: dict(x) hands back x itself
dict_alias(h, a) == a

\* dict(x) and x.copy(): the address of the new dict, which is appended to the heap
dict_addr(h, a) == Len(h) + 1

\* the bodies posted in the call sequences
HeapBodies ==
    { ScenarioA,
      [old_rtu |-> Rtu(Curb(8, 6, 2000), Duct(2, 2, 2, 2), Duct(4, 4, 2, 2)),
       new_rtu |-> Rtu(Curb(6, 6, 4000), Duct(0, 2, 2, 2), Duct(4, 2, 2, 2)),
       params  |-> Params(SpU(10), 2, 12, 1)],
      [old_rtu |-> Rtu(Curb(6, 6, 2000), Duct(0, 0, 2, 2), Duct(0, 4, 2, 2)),
       new_rtu |-> Rtu(Curb(6, 6, 0), Duct(0, 0, 2, 2), Duct(2, 4, 2, 2)),
       params  |-> Params(SpU(2), 1, 10, 6)] }

\* request.get_json: the dicts of a body, freshly built after the heap h
body_dicts(b) ==
    << b.old_rtu.curb, b.old_rtu.supply, b.old_rtu.return,
       b.new_rtu.curb, b.new_rtu.supply, b.new_rtu.return >>
    \o (IF "params" \in DOMAIN b THEN << b.params >> ELSE << >>)

\* the addresses of those dicts
body_refs(h, b) ==
    LET n == Len(h)
        o == [curb |-> n + 1, supply |-> n + 2, return |-> n + 3]
        w == [curb |-> n + 4, supply |-> n + 5, return |-> n + 6]
    IN  IF "params" \in DOMAIN b THEN [old_rtu |-> o, new_rtu |-> w, params |-> n + 7]
        ELSE [old_rtu |-> o, new_rtu |-> w]

\* what a call was given: each dict's address and its content at the call
given_of(h, b) == [i \in 1..Len(body_dicts(b)) |-> [at |-> Len(h) + i, was |-> body_dicts(b)[i]]]

\* the curb / supply / return dicts at the addresses r
rtu_at(h, r) == [curb |-> h[r.curb], supply |-> h[r.supply], return |-> h[r.return]]

\* newX = dict(new_rtu[X]); newX["x"] = seat["x"] + new_rtu[X]["x"]; newX["y"] = ...
\* (src is the address of new_rtu[X], seatA that of seat)
moved_copy(hx, src, seatA) ==
    The({ [Append(h, h[src]) EXCEPT ![dict_addr(h, src)].x = h[seatA].x + h[src].x,
                                    ![dict_addr(h, src)].y = h[seatA].y + h[src].y]
          : h \in {hx} })

\* design_adapter(old_rtu, new_rtu, p) on the heap: o, n hold the addresses of
\* the curb / supply / return dicts, pa is the address of p
design_adapter_on(hx, o, n, pa) ==
    The({ The({ The({ [heap |-> h9 \o << d.report, d.curb >>,
                       design |-> [curb |-> Len(h9) + 2, seat |-> Len(h) + 1,
                                   report |-> Len(h9) + 1,
                                   supplyPath |-> d.supplyPath, returnPath |-> d.returnPath,
                                   baffles |-> d.baffles]]
                      \* seat = {...}; oldSupply = dict(old_rtu["supply"]);
                      \* oldReturn = dict(old_rtu["return"]); then newSupply, newReturn;
                      \* report = {...} and the returned curb dict come last
                      : h9 \in { moved_copy(moved_copy(h \o << d.seat, h[o.supply], h[o.return] >>,
                                                       n.supply, Len(h) + 1),
                                            n.return, Len(h) + 1) } })
                : d \in { design_adapter(rtu_at(h, o), rtu_at(h, n), h[pa]) } })
          : h \in {hx} })

\* the body of the inner loops of ai_autotune after design_adapter returned r:
\* the heap and the items after the pass
pass_on(r, tmpA, offx, offy, items) ==
    The({ The({ The({ [heap  |-> Append(h2, h2[tmpA]),
                       \* item = {"params": tmp.copy(), ..., "design": design, ...}
                       items |-> Append(items,
                                   [params |-> dict_addr(h2, tmpA), seat |-> r.design.seat,
                                    report |-> r.design.report, curb |-> r.design.curb,
                                    seat_offset |-> <<offx, offy>>])]
                      \* design["report"]["cogOffsetIn"] = ...; design["report"]["cogOK"] = ...
                      : h2 \in { [h1 EXCEPT ![r.design.report].cogOffsetIn = round_cog(cog),
                                           ![r.design.report].cogOK =
                                               cog_within(cog, h1[tmpA].cogMaxOffset)] } })
                : cog \in { cog_offset(h1[r.design.curb].W, h1[r.design.curb].L,
                                       h1[r.design.seat].x, h1[r.design.seat].y,
                                       h1[r.design.seat].W, h1[r.design.seat].L) } })
          \* design["seat"]["x"] += offx; design["seat"]["y"] += offy
          : h1 \in { [r.heap EXCEPT ![r.design.seat].x = @ + Inch(offx),
                                    ![r.design.seat].y = @ + Inch(offy)] } })

\* the two inner loops of ai_autotune from the j-th (offx, offy) pair on;
\* tmpA is the address of tmp
RECURSIVE offsets_loop(_, _, _, _, _)
offsets_loop(h, b, tmpA, j, items) ==
    IF j > Len(OFFSETS) * Len(OFFSETS) THEN [heap |-> h, items |-> items]
    ELSE The({ offsets_loop(p.heap, b, tmpA, j + 1, p.items)
               : p \in { pass_on(r, tmpA, OFFSETS[((j - 1) \div 3) + 1],
                                 OFFSETS[((j - 1) % 3) + 1], items)
                         : r \in { design_adapter_on(h, b.old_rtu, b.new_rtu, tmpA) } } })

\* the outer loop of ai_autotune from the w-th widening on; base is
\* params["corridorWidth"] as read before the loop
RECURSIVE widths_loop(_, _, _, _, _, _)
widths_loop(h, b, pA, base, w, items) ==
    IF w > Len(WIDENINGS) THEN [heap |-> h, items |-> items]
    ELSE The({ widths_loop(r.heap, b, pA, base, w + 1, r.items)
               : r \in { offsets_loop(hb, b, tmpA, 1, items)
                         \* tmp = dict(params); tmp["corridorWidth"] = cw
                         : hb \in { [Append(h, h[pA]) EXCEPT ![dict_addr(h, pA)].corridorWidth =
                                        Min(Inch(16), base + Inch(WIDENINGS[w]))] },
                           tmpA \in { dict_addr(h, pA) } } })

\* ai_autotune on the heap; refs are the addresses of the body's dicts
ai_autotune_on(h, refs) ==
    \* data.get("params", DEFAULT_PARAMS.copy()): the copy is made either way
    The({ widths_loop(h0, refs, pA, h0[pA].corridorWidth, 1, << >>)
          : h0 \in { Append(h, h[1]) },
            pA \in { IF "params" \in DOMAIN refs THEN refs.params ELSE dict_addr(h, 1) } })

\* adapter_preview on the heap: data.get("params", DEFAULT_PARAMS) is the
\* module's dict itself when the body has no params
adapter_preview_on(h, refs) ==
    design_adapter_on(h, refs.old_rtu, refs.new_rtu, Get(refs, "params", 1))

InitHeap ==
    /\ req = Idle
    /\ res = Idle
    /\ data = Idle
    /\ design = Idle
    /\ cands = Idle
    /\ tune = Idle
    /\ query = Idle
    /\ answer = Idle
    /\ heap = << DEFAULT_PARAMS >>
    /\ calls = << >>
    /\ wall = Idle
    /\ panels = Idle
    /\ clock = Idle
    /\ jobs = Idle
    /\ confirms = Idle

\* POST /api/adapter/preview with body b
HeapPreview ==
    /\ Len(calls) < MaxCalls
    /\ \E b \in HeapBodies :
          \E r \in { adapter_preview_on(h0, body_refs(heap, b)) : h0 \in {heap \o body_dicts(b)} } :
              /\ heap' = r.heap
              /\ calls' = Append(calls,
                     [kind |-> "preview", body |-> b, given |-> given_of(heap, b),
                      items |-> << [seat |-> r.design.seat, report |-> r.design.report,
                                    curb |-> r.design.curb] >>])
    /\ UNCHANGED <<req, res, data, design, cands, tune, query, answer,
                 wall, panels, clock, jobs, confirms>>

\* POST /api/ai/autotune with body b
HeapAutotune ==
    /\ Len(calls) < MaxCalls
    /\ \E b \in HeapBodies :
          \E r \in { ai_autotune_on(h0, body_refs(heap, b)) : h0 \in {heap \o body_dicts(b)} } :
              /\ heap' = r.heap
              /\ calls' = Append(calls,
                     [kind |-> "autotune", body |-> b, given |-> given_of(heap, b),
                      items |-> r.items])
    /\ UNCHANGED <<req, res, data, design, cands, tune, query, answer,
                 wall, panels, clock, jobs, confirms>>

NextHeap == HeapPreview \/ HeapAutotune

SpecHeap == InitHeap /\ [][NextHeap]_vars

----------------------------------------------------------------------------
(* Panels of the DXF: split_length *)

\* longest wall split, in inches
MaxWall == 260

\* MAX_PANEL = 84.0 inches
MAX_PANEL == Inch(84)

\* the 0.5 inch below which a remainder is not a panel of its own
SLIVER == Inch(1) \div 2

\* while remaining > max_len: parts.append(max_len); remaining -= max_len
RECURSIVE split_loop(_, _, _)
split_loop(parts, remaining, max_len) ==
    IF remaining > max_len
    THEN split_loop(Append(parts, max_len), remaining - max_len, max_len)
    ELSE [parts |-> parts, remaining |-> remaining]

split_length(length, max_len) ==
    IF length <= max_len THEN << length >>
    ELSE The({ IF r.remaining > SLIVER
               THEN Append(r.parts, r.remaining)
               ELSE [r.parts EXCEPT ![Len(r.parts)] = @ + r.remaining]
               : r \in { split_loop(<< >>, length, max_len) } })

\* the lengths split: every quarter inch up to MaxWall inches
InitPanels ==
    /\ req = Idle
    /\ res = Idle
    /\ data = Idle
    /\ design = Idle
    /\ cands = Idle
    /\ tune = Idle
    /\ query = Idle
    /\ answer = Idle
    /\ heap = Idle
    /\ calls = Idle
    /\ wall \in 1..Inch(MaxWall)
    /\ panels = << >>
    /\ clock = Idle
    /\ jobs = Idle
    /\ confirms = Idle

\* split_length(length, MAX_PANEL), as generate_dxf calls it for a wall or a baffle
SplitLength ==
    /\ panels = << >>
    /\ panels' = split_length(wall, MAX_PANEL)
    /\ UNCHANGED <<req, res, data, design, cands, tune, query, answer, heap, calls,
                   wall, clock, jobs, confirms>>

NextPanels == SplitLength

SpecPanels == InitPanels /\ [][NextPanels]_vars

----------------------------------------------------------------------------
(* Confirm requests and their job directories *)

\* confirm requests followed
MaxConfirms == 2

\* last tick of the clock
MaxClock == 3

\* ticks of the clock in one second
TicksPerSecond == 2

Confirms == 1..MaxConfirms

\* the files adapter_confirm writes into a job directory
JOB_FILES == {"payload.json", "adapter_panels.dxf", "submittal.pdf"}

\* job_key = f"JOB-{int(time.time())}" at tick t
job_key_at(t) == <<"JOB", t \div TicksPerSecond>>

\* job_dir = os.path.join(JOBS, job_key)
job_dir_of(key) == <<"storage", "jobs", key>>

\* os.makedirs(job_dir, exist_ok=True): an existing directory is kept as it is
makedirs(fs, dir) ==
    IF dir \in DOMAIN fs THEN fs ELSE fs @@ (dir :> [f \in JOB_FILES |-> 0])

\* open(path, "w") and the write by request r: what was there is replaced
written(fs, dir, name, r) == [fs EXCEPT ![dir][name] = r]

InitConfirm ==
    /\ req = Idle
    /\ res = Idle
    /\ data = Idle
    /\ design = Idle
    /\ cands = Idle
    /\ tune = Idle
    /\ query = Idle
    /\ answer = Idle
    /\ heap = Idle
    /\ calls = Idle
    /\ wall = Idle
    /\ panels = Idle
    /\ clock = 0
    /\ jobs = <<>>
    /\ confirms = [r \in Confirms |-> [pc |-> "new", job_key |-> None, job_dir |-> None]]

\* time passes
Tick ==
    /\ clock < MaxClock
    /\ clock' = clock + 1
    /\ UNCHANGED <<req, res, data, design, cands, tune, query, answer, heap, calls,
                   wall, panels, jobs, confirms>>

\* adapter_confirm up to os.makedirs
ConfirmBegin(r) ==
    /\ confirms[r].pc = "new"
    /\ \E key \in {job_key_at(clock)} :
          /\ confirms' = [confirms EXCEPT ![r] = [pc |-> "dir", job_key |-> key,
                                                  job_dir |-> job_dir_of(key)]]
          /\ jobs' = makedirs(jobs, job_dir_of(key))
    /\ UNCHANGED <<req, res, data, design, cands, tune, query, answer, heap, calls,
                   wall, panels, clock>>

\* json.dump(data, f) into payload.json
WritePayload(r) ==
    /\ confirms[r].pc = "dir"
    /\ jobs' = written(jobs, confirms[r].job_dir, "payload.json", r)
    /\ confirms' = [confirms EXCEPT ![r].pc = "payload"]
    /\ UNCHANGED <<req, res, data, design, cands, tune, query, answer, heap, calls,
                   wall, panels, clock>>

\* generate_dxf: doc.saveas(job_dir/adapter_panels.dxf)
GenerateDxf(r) ==
    /\ confirms[r].pc = "payload"
    /\ jobs' = written(jobs, confirms[r].job_dir, "adapter_panels.dxf", r)
    /\ confirms' = [confirms EXCEPT ![r].pc = "dxf"]
    /\ UNCHANGED <<req, res, data, design, cands, tune, query, answer, heap, calls,
                   wall, panels, clock>>

\* generate_pdf: the canvas saved as job_dir/submittal.pdf
GeneratePdf(r) ==
    /\ confirms[r].pc = "dxf"
    /\ jobs' = written(jobs, confirms[r].job_dir, "submittal.pdf", r)
    /\ confirms' = [confirms EXCEPT ![r].pc = "pdf"]
    /\ UNCHANGED <<req, res, data, design, cands, tune, query, answer, heap, calls,
                   wall, panels, clock>>

\* return jsonify({"ok": True, "job_key": job_key, ...})
ConfirmRespond(r) ==
    /\ confirms[r].pc = "pdf"
    /\ confirms' = [confirms EXCEPT ![r].pc = "done"]
    /\ UNCHANGED <<req, res, data, design, cands, tune, query, answer, heap, calls,
                   wall, panels, clock, jobs>>

NextConfirm ==
    \/ Tick
    \/ \E r \in Confirms : ConfirmBegin(r)
    \/ \E r \in Confirms : WritePayload(r)
    \/ \E r \in Confirms : GenerateDxf(r)
    \/ \E r \in Confirms : GeneratePdf(r)
    \/ \E r \in Confirms : ConfirmRespond(r)

SpecConfirm == InitConfirm /\ [][NextConfirm]_vars

\* One request, to either designer.
InitEngine == InitRotation \/ InitPreview

NextEngine == AdapterDesign \/ AdapterPreview

SpecEngine == InitEngine /\ [][NextEngine]_vars

----------------------------------------------------------------------------
(* Reading outcomes *)

IsDesign(r) == "ok" \in DOMAIN r /\ r.ok

IsFailure(r) == "ok" \in DOMAIN r /\ ~r.ok

Raised(r) == "raised" \in DOMAIN r

\* an absolute opening of the result, back in its footprint's own coordinates
Local(pA, rect) == [pA EXCEPT !.x = pA.x - rect.x, !.y = pA.y - rect.y]

----------------------------------------------------------------------------
(* C1 *)

\* C1: whenever the rotation variant flipped the new footprint (the crossing
\* test on the request's openings was positive), the crossing test applied to
\* the old openings and the rotated new openings of the result reports no
\* crossing.
C1_RotationRemovesCrossing ==
    (IsDesign(res) /\ res.adapter.top_rect.rotated_180) =>
        ~ _would_cross(req.existing.supply, req.existing.return,
                       Local(res.adapter.top_supply, res.adapter.top_rect),
                       Local(res.adapter.top_return, res.adapter.top_rect))

----------------------------------------------------------------------------
(* C8 *)

\* an opening record that validation is meant to reject for footprint L x W
BadOpening(p, L, W) ==
    \/ Falsy(p)
    \/ \E k \in {"x", "y", "w", "l"} : k \notin DOMAIN p
    \/ p.w <= 0 \/ p.l <= 0
    \/ p.x + p.w > L \/ p.y + p.l > W

BadFootprint(f) ==
    \/ f.length <= 0 \/ f.width <= 0
    \/ BadOpening(f.supply, f.length, f.width)
    \/ BadOpening(f.return, f.length, f.width)

\* C8: a handled request with a non-positive footprint, or with an opening
\* that is absent, empty, incomplete, of non-positive size or out of bounds,
\* ends in a failure result with a non-empty error list: no design, no raise.
C8_ValidationNeverRaises ==
    (res # Idle /\ (BadFootprint(req.existing) \/ BadFootprint(req.new))) =>
        /\ ~Raised(res)
        /\ IsFailure(res)
        /\ res.errors # <<>>

----------------------------------------------------------------------------
(* C6 *)

\* the corridor of a path: its bounding extent grown by half the corridor
\* width on every side, as left/right/top/bottom edges
Corridor(path, cw) ==
    LET xs == {path[1].from[1], path[1].to[1], path[2].from[1], path[2].to[1]}
        ys == {path[1].from[2], path[1].to[2], path[2].from[2], path[2].to[2]}
    IN  [left   |-> (CHOOSE v \in xs : \A u \in xs : v <= u) - cw \div 2,
         right  |-> (CHOOSE v \in xs : \A u \in xs : v >= u) + cw \div 2,
         top    |-> (CHOOSE v \in ys : \A u \in ys : v <= u) - cw \div 2,
         bottom |-> (CHOOSE v \in ys : \A u \in ys : v >= u) + cw \div 2]

CorridorsOverlap(a, b) ==
    ~ (a.right <= b.left \/ b.right <= a.left \/ a.bottom <= b.top \/ b.bottom <= a.top)

DesignOverlap(d, p) ==
    CorridorsOverlap(Corridor(d.supplyPath, p.corridorWidth),
                     Corridor(d.returnPath, p.corridorWidth))

\* C6: a design of the baffle variant has no baffle or exactly two; none
\* exactly when the buffered corridors of the two paths do not overlap, and
\* otherwise a vertical and a horizontal one, each of thickness baffleThickness.
C6_BafflesNoneOrTwo ==
    design # Idle =>
        /\ Len(design.baffles) \in {0, 2}
        /\ (design.baffles = <<>>) <=> ~ DesignOverlap(design, params_of(data))
        /\ design.baffles # <<>> =>
              /\ design.baffles[1].kind = "vertical"
              /\ design.baffles[2].kind = "horizontal"
              /\ \A i \in 1..2 : design.baffles[i].thickness = params_of(data).baffleThickness

\* the corridors overlap and both baffles were added
C6_Witness ==
    /\ design # Idle
    /\ DesignOverlap(design, params_of(data))
    /\ Len(design.baffles) = 2

----------------------------------------------------------------------------
(* C7 *)

\* rectangles as [x0, x1, y0, y1]
Within(o, f) == f.x0 <= o.x0 /\ o.x1 <= f.x1 /\ f.y0 <= o.y0 /\ o.y1 <= f.y1

\* rotation variant: x runs along the length, y along the width
RotFootprintRect(rect, a) ==
    [x0 |-> (a.length - rect.l) \div 2, x1 |-> (a.length + rect.l) \div 2,
     y0 |-> (a.width - rect.w) \div 2,  y1 |-> (a.width + rect.w) \div 2]

RotOpeningRect(o) == [x0 |-> o.x, x1 |-> o.x + o.w, y0 |-> o.y, y1 |-> o.y + o.l]

\* baffle variant: x runs along W, y along L; a footprint centred in the curb
CentredRect(c, curb) ==
    [x0 |-> (curb.W - c.W) \div 2, x1 |-> (curb.W + c.W) \div 2,
     y0 |-> (curb.L - c.L) \div 2, y1 |-> (curb.L + c.L) \div 2]

\* the rectangle of an opening of size o around the centre its path starts or ends at
RectAround(centre, o) ==
    [x0 |-> centre[1] - o.W \div 2, x1 |-> centre[1] + o.W \div 2,
     y0 |-> centre[2] - o.L \div 2, y1 |-> centre[2] + o.L \div 2]

ValidDuct(o, c) == o.W > 0 /\ o.L > 0 /\ o.x >= 0 /\ o.y >= 0 /\ o.x + o.W <= c.W /\ o.y + o.L <= c.L

ValidBody(d) ==
    /\ ValidDuct(d.old_rtu.supply, d.old_rtu.curb) /\ ValidDuct(d.old_rtu.return, d.old_rtu.curb)
    /\ ValidDuct(d.new_rtu.supply, d.new_rtu.curb) /\ ValidDuct(d.new_rtu.return, d.new_rtu.curb)

\* C7: in every design produced from a valid input, by either variant, each of
\* the four openings lies, in absolute coordinates, within its own footprint
\* placed centred in the outer envelope.
C7_OpeningsWithinFootprints ==
    /\ IsDesign(res) =>
          LET a == res.adapter IN
          /\ Within(RotOpeningRect(a.bottom_supply), RotFootprintRect(a.bottom_rect, a))
          /\ Within(RotOpeningRect(a.bottom_return), RotFootprintRect(a.bottom_rect, a))
          /\ Within(RotOpeningRect(a.top_supply), RotFootprintRect(a.top_rect, a))
          /\ Within(RotOpeningRect(a.top_return), RotFootprintRect(a.top_rect, a))
    /\ (design # Idle /\ ValidBody(data)) =>
          LET old == data.old_rtu
              new == data.new_rtu
          IN
          /\ Within(RectAround(design.supplyPath[1].from, old.supply), CentredRect(old.curb, design.curb))
          /\ Within(RectAround(design.returnPath[1].from, old.return), CentredRect(old.curb, design.curb))
          /\ Within(RectAround(design.supplyPath[2].to, new.supply), CentredRect(new.curb, design.curb))
          /\ Within(RectAround(design.returnPath[2].to, new.return), CentredRect(new.curb, design.curb))

----------------------------------------------------------------------------
(* C9 *)

HEIGHT_ERROR == <<"Height must be between 12.0 and 24.0 inches.">>

HasHeightError(r) == IsFailure(r) /\ \E i \in 1..Len(r.errors) : r.errors[i] = HEIGHT_ERROR

\* the request names a height and it lies outside the envelope bounds
RotHeightOutside(r) == r.height # 0 /\ (r.height < MIN_H \/ r.height > MAX_H)

BodyHeightOutside(d) ==
    /\ "H" \in DOMAIN d.new_rtu.curb
    /\ (d.new_rtu.curb.H < params_of(d).envelopeMin \/ d.new_rtu.curb.H > params_of(d).envelopeMax)

----------------------------------------------------------------------------
(* C2 *)

OkCandidates == {i \in DOMAIN cands : cands[i].ok}

\* C2: when some enumerated candidate has ok, the returned candidate has ok and
\* no candidate with ok scores higher; a candidate without ok is returned only
\* when no candidate has ok.
C2_ReturnsBestPassing ==
    tune # Idle =>
        /\ OkCandidates # {} =>
              /\ tune.result.ok
              /\ \A i \in OkCandidates : tune.result.score >= cands[i].score
        /\ ~ tune.result.ok => OkCandidates = {}

----------------------------------------------------------------------------
(* C3 *)

\* C3: of two candidates with the same staticPressure and separationOK, one
\* whose seat offset is at least as large in both coordinates, and larger in
\* one, never scores strictly higher.
C3_ScoreFallsWithOffset ==
    tune # Idle =>
        \A i, j \in DOMAIN cands :
            LET a == cands[i]
                b == cands[j]
            IN  ( /\ a.design.report.staticPressure = b.design.report.staticPressure
                  /\ a.design.report.separationOK = b.design.report.separationOK
                  /\ Abs(a.seat_offset[1]) >= Abs(b.seat_offset[1])
                  /\ Abs(a.seat_offset[2]) >= Abs(b.seat_offset[2])
                  /\ Abs(a.seat_offset[1]) + Abs(a.seat_offset[2])
                        > Abs(b.seat_offset[1]) + Abs(b.seat_offset[2]) )
                => a.score <= b.score

----------------------------------------------------------------------------
(* C4 *)

MaxScore == CHOOSE m \in {cands[i].score : i \in DOMAIN cands} :
                \A i \in DOMAIN cands : cands[i].score <= m

FirstAtMax == CHOOSE i \in DOMAIN cands :
                /\ cands[i].score = MaxScore
                /\ \A j \in DOMAIN cands : cands[j].score = MaxScore => i <= j

\* C4: the optimizer returns the first candidate, in enumeration order, whose
\* score is the maximum over all candidates.
C4_FirstMaximumWins ==
    tune # Idle => tune.result = cands[FirstAtMax]

\* a later, different candidate ties with the returned one
C4_Witness ==
    /\ tune # Idle
    /\ tune.result = cands[FirstAtMax]
    /\ \E j \in DOMAIN cands :
          /\ j > FirstAtMax
          /\ cands[j].score = MaxScore
          /\ cands[j] # cands[FirstAtMax]

----------------------------------------------------------------------------
(* C5 *)

\* cogOK of a design whose seat has been moved, restated from the seat and the
\* curb: half the distance between the seat centre and the curb centre is at
\* most limit (ex, ey are four times dx, dy of cog_offset)
SeatCogOK(d, limit) ==
    LET ex == 2 * d.seat.x + d.seat.W - d.curb.W
        ey == 2 * d.seat.y + d.seat.L - d.curb.L
    IN  limit >= 0 /\ ex * ex + ey * ey <= 16 * limit * limit

OkMatches(c, target) ==
    /\ c.design.report.cogOK <=> SeatCogOK(c.design, c.params.cogMaxOffset)
    /\ c.ok <=> ( /\ c.design.report.separationOK
                  /\ c.design.report.envelopeOK
                  /\ c.design.report.cogOK
                  /\ c.design.report.staticPressure <= target )

\* C5 as stated: the target is spLimit - 0.20 for every spLimit.
C5_OkAgainstLimitMinusMargin ==
    tune # Idle =>
        /\ tune.target_sp = params_of(data).spLimit - 72000
        /\ \A i \in DOMAIN cands : OkMatches(cands[i], params_of(data).spLimit - 72000)

\* C5 amended: the target is max(0, spLimit - 0.20); ok is the conjunction of
\* separationOK, envelopeOK, the recomputed cogOK and staticPressure <= target.
C5_OkAgainstFlooredTarget ==
    tune # Idle =>
        LET target == IF params_of(data).spLimit >= 72000 THEN params_of(data).spLimit - 72000 ELSE 0
        IN  /\ tune.target_sp = target
            /\ \A i \in DOMAIN cands : OkMatches(cands[i], target)

\* spLimit is below the margin and a candidate with zero reported pressure passes
C5_Witness ==
    /\ tune # Idle
    /\ params_of(data).spLimit < 72000
    /\ \E i \in DOMAIN cands : cands[i].ok /\ cands[i].design.report.staticPressure = 0

----------------------------------------------------------------------------
(* C10 *)

AreaOf(size) == size[1] * size[2]

\* C10 as stated: with cfm and path length fixed, a larger opening area gives
\* a strictly smaller staticPressure.
C10_StrictlyDecreasingInArea ==
    (answer # Idle /\ AreaOf(query.sizeA) < AreaOf(query.sizeB)) =>
        answer.b.staticPressure < answer.a.staticPressure

\* C10 amended: a larger opening area never gives a larger staticPressure,
\* rounded or not; before rounding it gives a strictly smaller one when the
\* duct's cfm is not 0 and the smaller opening has W*L >= 4 in2.
C10_DecreasingInArea ==
    (answer # Idle /\ AreaOf(query.sizeA) < AreaOf(query.sizeB)) =>
        /\ answer.a.supLen = answer.b.supLen
        /\ answer.b.staticPressure <= answer.a.staticPressure
        /\ answer.b.raw <= answer.a.raw
        /\ (query.params.cfmSupply # 0 /\ AreaOf(query.sizeA) >= 4) =>
              answer.b.raw < answer.a.raw

\* air flows, the smaller opening is above the floor, and the pressure fell
C10_Witness ==
    /\ answer # Idle
    /\ query.params.cfmSupply # 0
    /\ AreaOf(query.sizeA) >= 4
    /\ AreaOf(query.sizeA) < AreaOf(query.sizeB)
    /\ answer.b.raw < answer.a.raw

----------------------------------------------------------------------------
(* C11 *)

\* the loss of one duct as C11 states it, in 1/360000 in.wg: area in quarter
\* square inches, floored at 1 in2; velocity = cfm/(area/144);
\* vp = (velocity/4005)^2 = 16*cfm^2/(7921*area^2) in the model's units;
\* loss = (len/100)*0.08 + 0.8*vp
DuctLoss(cfm, area, len) ==
    LET a   == Max(area, 4)
        per == 4608000 \div (a * a)
    IN  6 * len + per * ((cfm * cfm) \div 7921) + (per * ((cfm * cfm) % 7921)) \div 7921

\* equivalent length of a returned path: its horizontal run plus its vertical run
RunOf(path) == Abs(path[1].to[1] - path[1].from[1]) + Abs(path[2].to[2] - path[2].from[2])

\* the sum of the two duct losses when an opening of W x L counts for
\* W*L/part square inches
LossSum(part) ==
    DuctLoss(params_of(data).cfmSupply,
             (4 * data.new_rtu.supply.W * data.new_rtu.supply.L) \div (16 * part),
             RunOf(design.supplyPath))
    + DuctLoss(params_of(data).cfmReturn,
               (4 * data.new_rtu.return.W * data.new_rtu.return.L) \div (16 * part),
               RunOf(design.returnPath))

\* C11 as stated: each duct's loss is computed from the opening's own area W*L.
C11_LossFromOpeningArea ==
    design # Idle =>
        /\ design.report.staticPressure = round_sp(LossSum(1))
        /\ design.report.staticPressureOK <=> LossSum(1) <= params_of(data).spLimit

\* C11 amended: each duct's loss is computed from a quarter of the opening's
\* area, max(W*L/4, 1) in2; staticPressure is the sum of the two losses,
\* reported to three decimals, and staticPressureOK holds iff the sum is at
\* most spLimit.
C11_LossFromQuarterArea ==
    design # Idle =>
        /\ design.report.staticPressure = round_sp(LossSum(4))
        /\ design.report.staticPressureOK <=> LossSum(4) <= params_of(data).spLimit

\* air flows in both ducts, the runs differ, and the pressure is within the limit
C11_Witness ==
    /\ design # Idle
    /\ params_of(data).cfmSupply > 0
    /\ params_of(data).cfmReturn > 0
    /\ RunOf(design.supplyPath) # RunOf(design.returnPath)
    /\ design.report.staticPressure > 0
    /\ design.report.staticPressureOK

----------------------------------------------------------------------------
(* C12 *)

\* C12: scenario A under default parameters gives curb 48 x 38 x 22, seat
\* (3, 3) of 42 x 32, separate corridors without baffles, envelopeOK, a COG
\* offset of 0 with cogOK, and a staticPressure that is 57.46 to two decimals
\* and above the limit.
C12_ScenarioA ==
    (design # Idle /\ data = ScenarioA) =>
        /\ design.curb = [L |-> Inch(48), W |-> Inch(38), H |-> 2200]
        /\ design.seat = [x |-> Inch(3), y |-> Inch(3), L |-> Inch(42), W |-> Inch(32)]
        /\ design.report.separationOK
        /\ design.baffles = <<>>
        /\ design.report.envelopeOK
        /\ design.report.cogOffsetIn = 0
        /\ design.report.cogOK
        /\ 100 * design.report.staticPressure >= SpU(5746) - SpU(1) \div 2
        /\ 100 * design.report.staticPressure < SpU(5746) + SpU(1) \div 2
        /\ ~ design.report.staticPressureOK

\* the design of scenario A has been produced
C12_Witness ==
    /\ design # Idle
    /\ data = ScenarioA
    /\ "params" \notin DOMAIN data

----------------------------------------------------------------------------
(* C13 *)

\* the crossing test on the openings of the request
CrossesAsGiven ==
    _would_cross(req.existing.supply, req.existing.return, req.new.supply, req.new.return)

\* x' = newL - x - w, y' = newW - y - l, w and l unchanged
FlippedOnce(p) ==
    [x |-> req.new.length - p.x - p.w, y |-> req.new.width - p.y - p.l,
     w |-> p.w, l |-> p.l]

\* C13: rotated_180 is true exactly when the crossing test on the original
\* openings is positive; then both new openings are flipped once, otherwise
\* they keep their local coordinates; the result has no baffles.
C13_FlipIffCrossing ==
    IsDesign(res) =>
        LET a == res.adapter
        IN  /\ a.top_rect.rotated_180 <=> CrossesAsGiven
            /\ Local(a.top_supply, a.top_rect) =
                  (IF CrossesAsGiven THEN FlippedOnce(req.new.supply) ELSE req.new.supply)
            /\ Local(a.top_return, a.top_rect) =
                  (IF CrossesAsGiven THEN FlippedOnce(req.new.return) ELSE req.new.return)
            /\ "baffles" \notin DOMAIN a
            /\ "baffles" \notin DOMAIN res

\* a design was flipped, and the flip moved the supply opening
C13_Witness ==
    /\ IsDesign(res)
    /\ res.adapter.top_rect.rotated_180
    /\ Local(res.adapter.top_supply, res.adapter.top_rect) = FlippedOnce(req.new.supply)
    /\ Local(res.adapter.top_supply, res.adapter.top_rect) # req.new.supply

----------------------------------------------------------------------------
(* C14 *)

InEnvelope(pt, d) == pt[1] >= 0 /\ pt[1] <= d.curb.W /\ pt[2] >= 0 /\ pt[2] <= d.curb.L

\* every endpoint of every baffle lies in the envelope rectangle
BafflesInEnvelope(d) ==
    \A i \in DOMAIN d.baffles : InEnvelope(d.baffles[i].from, d) /\ InEnvelope(d.baffles[i].to, d)

\* C14: when the corridors overlap, the vertical baffle is at the x-midpoint
\* of the overlapping region (the larger left edge and the smaller right edge,
\* averaged) and the horizontal baffle at its y-midpoint, each clamped to the
\* envelope; every baffle endpoint lies inside the envelope rectangle.
C14_BafflesAtOverlapMidpoint ==
    (design # Idle /\ DesignOverlap(design, params_of(data))) =>
        LET a == Corridor(design.supplyPath, params_of(data).corridorWidth)
            b == Corridor(design.returnPath, params_of(data).corridorWidth)
            \* twice the midpoints, to stay on the quarter-inch grid
            xm2 == Max(a.left, b.left) + Min(a.right, b.right)
            ym2 == Max(a.top, b.top) + Min(a.bottom, b.bottom)
        IN  /\ Len(design.baffles) = 2
            /\ 2 * design.baffles[1].from[1] = clamp(xm2, 0, 2 * design.curb.W)
            /\ design.baffles[1].to[1] = design.baffles[1].from[1]
            /\ 2 * design.baffles[2].from[2] = clamp(ym2, 0, 2 * design.curb.L)
            /\ design.baffles[2].to[2] = design.baffles[2].from[2]
            /\ BafflesInEnvelope(design)

----------------------------------------------------------------------------
(* C15 *)

\* C15: the optimizer answers ok with a result that is one of the candidates
\* and holds its full design, its parameters, its score and its ok flag, also
\* when every candidate has ok = false; there is no error and no empty result.
C15_AlwaysReturnsCandidate ==
    tune # Idle =>
        /\ tune.ok
        /\ "error" \notin DOMAIN tune
        /\ tune.result # None
        /\ \E i \in DOMAIN cands : tune.result = cands[i]
        /\ {"design", "params", "score", "ok"} \subseteq DOMAIN tune.result
        /\ DOMAIN tune.result.design =
              {"curb", "seat", "supplyPath", "returnPath", "baffles", "report"}
        /\ DOMAIN tune.result.params = DOMAIN DEFAULT_PARAMS

\* no candidate passes, and the best-effort candidate is returned with ok = false
C15_Witness ==
    /\ tune # Idle
    /\ \A i \in DOMAIN cands : ~ cands[i].ok
    /\ tune.result # None
    /\ ~ tune.result.ok

----------------------------------------------------------------------------
(* C17 *)

\* twice the signed area of the triangle P, Q, R
Orient(P, Q, R) == (Q[1] - P[1]) * (R[2] - P[2]) - (Q[2] - P[2]) * (R[1] - P[1])

\* the bounding boxes of the segments PQ and RS have a point in common
BoxesMeet(P, Q, R, S) ==
    /\ Max(Min(P[1], Q[1]), Min(R[1], S[1])) <= Min(Max(P[1], Q[1]), Max(R[1], S[1]))
    /\ Max(Min(P[2], Q[2]), Min(R[2], S[2])) <= Min(Max(P[2], Q[2]), Max(R[2], S[2]))

\* exact: the closed segments PQ and RS have at least one point in common
SegmentsMeet(P, Q, R, S) ==
    LET o1 == Orient(P, Q, R)
        o2 == Orient(P, Q, S)
        o3 == Orient(R, S, P)
        o4 == Orient(R, S, Q)
    IN  IF o1 = 0 /\ o2 = 0 /\ o3 = 0 /\ o4 = 0 THEN BoxesMeet(P, Q, R, S)
        ELSE /\ (o1 <= 0 /\ o2 >= 0) \/ (o1 >= 0 /\ o2 <= 0)
             /\ (o3 <= 0 /\ o4 >= 0) \/ (o3 >= 0 /\ o4 <= 0)

\* the centre lines of the request have a point in common
CentreLinesMeet ==
    SegmentsMeet(_center(req.existing.supply), _center(req.new.supply),
                 _center(req.existing.return), _center(req.new.return))

\* C17: the crossing test is positive exactly when the supply centre line and
\* the return centre line have at least one point in common, collinear overlap
\* and touching at an endpoint included.
C17_CrossingTestIsExact ==
    IsDesign(res) => (res.adapter.top_rect.rotated_180 <=> CentreLinesMeet)

----------------------------------------------------------------------------
(* C18 *)

\* the notes of a report agree with its flags
NotesMatch(r) ==
    /\ Len(r.notes) = 5
    /\ r.notes[1] = "Exterior profile fixed to 4-sided rectangle."
    /\ r.notes[2] \in {"S/R corridors separate.", "Cross detected - internal baffles added."}
    /\ r.notes[3] = "Height within envelope." <=> r.envelopeOK
    /\ r.notes[3] # "Height within envelope." => r.notes[3] = "Adapter height violates envelope."
    /\ r.notes[4] = "Total SP <= spLimit." <=> r.staticPressureOK
    /\ r.notes[4] # "Total SP <= spLimit." =>
          r.notes[4] = "Total SP > spLimit - enlarge area or shorten path."
    /\ r.notes[5] = "COG offset within cogMaxOffset." <=> r.cogOK
    /\ r.notes[5] # "COG offset within cogMaxOffset." =>
          r.notes[5] = "COG offset exceeds cogMaxOffset - recenter seat or rebalance."

\* C18: every report the optimizer builds, after it recomputed the COG for the
\* offset seat, has five notes in the order exterior profile, separation,
\* envelope, static pressure, COG, and the envelope, static-pressure and COG
\* notes are the pass phrasing exactly when the report's flags are true.
C18_NotesMatchFlags ==
    tune # Idle =>
        /\ \A i \in DOMAIN cands : NotesMatch(cands[i].design.report)
        /\ NotesMatch(tune.result.design.report)

----------------------------------------------------------------------------
(* C19 *)

\* C19: separationOK is true in the report of every candidate's design,
\* whether or not the corridors overlap; no score carries the separation
\* penalty, and ok is decided by envelope, COG and static pressure alone.
C19_SeparationAlwaysOK ==
    tune # Idle =>
        \A i \in DOMAIN cands :
            LET c == cands[i]
                r == c.design.report
            IN  /\ r.separationOK
                /\ DesignOverlap(c.design, c.params) => Len(c.design.baffles) = 2
                /\ c.score = (tune.target_sp - r.staticPressure) * 10
                             - 9000 * Abs(c.design.seat.x) - 9000 * Abs(c.design.seat.y)
                /\ c.ok <=> (r.envelopeOK /\ r.cogOK /\ r.staticPressure <= tune.target_sp)

\* the corridors of a candidate overlap, and its separationOK is true
C19_Witness ==
    /\ tune # Idle
    /\ \E i \in DOMAIN cands :
          /\ DesignOverlap(cands[i].design, cands[i].params)
          /\ cands[i].design.report.separationOK
    /\ \E j \in DOMAIN cands : ~ DesignOverlap(cands[j].design, cands[j].params)

----------------------------------------------------------------------------
(* C20 *)

\* C20: the candidates of one input, which differ in corridorWidth, all report
\* the same staticPressure and staticPressureOK, so the static-pressure term of
\* the score is the same for all of them.
C20_PressureIgnoresCorridorWidth ==
    tune # Idle =>
        \A i, j \in DOMAIN cands :
            /\ cands[i].design.report.staticPressure = cands[j].design.report.staticPressure
            /\ cands[i].design.report.staticPressureOK = cands[j].design.report.staticPressureOK
            /\ cands[i].score + 9000 * (Abs(cands[i].design.seat.x) + Abs(cands[i].design.seat.y))
                 = cands[j].score + 9000 * (Abs(cands[j].design.seat.x) + Abs(cands[j].design.seat.y))

\* two candidates were designed with different corridor widths, one of them
\* with baffles and one without
C20_Witness ==
    /\ tune # Idle
    /\ \E i, j \in DOMAIN cands :
          /\ cands[i].params.corridorWidth # cands[j].params.corridorWidth
          /\ cands[i].design.supplyPath[1].width # cands[j].design.supplyPath[1].width
          /\ cands[i].design.baffles # cands[j].design.baffles
          /\ cands[i].design.report.staticPressure > 0

----------------------------------------------------------------------------
(* C16 *)

\* every (call, item) pair made so far
ItemsMade == {ci \in (1..Len(calls)) \X (1..36) : ci[2] <= Len(calls[ci[1]].items)}

\* the dicts an item owns: its seat, its report, its curb and, for an
\* optimizer item, its params
OwnedBy(ci) ==
    LET it == calls[ci[1]].items[ci[2]]
    IN  {it.seat, it.report, it.curb} \cup (IF "params" \in DOMAIN it THEN {it.params} ELSE {})

\* C16: after any sequence of preview and optimizer calls the dicts the callers
\* handed in (curbs, openings, params) and DEFAULT_PARAMS hold what they held,
\* and the seat, report, curb and params dicts of an item are shared with no
\* other item, no caller's dict and not with DEFAULT_PARAMS.
C16_NoSideEffects ==
        /\ heap[1] = DEFAULT_PARAMS
        /\ \A c \in 1..Len(calls) : \A g \in 1..Len(calls[c].given) :
              heap[calls[c].given[g].at] = calls[c].given[g].was
        /\ \A ci \in ItemsMade :
              /\ Cardinality(OwnedBy(ci)) = (IF "params" \in DOMAIN calls[ci[1]].items[ci[2]] THEN 4 ELSE 3)
              /\ 1 \notin OwnedBy(ci)
              /\ \A c \in 1..Len(calls) : \A g \in 1..Len(calls[c].given) :
                    calls[c].given[g].at \notin OwnedBy(ci)
              /\ \A cj \in ItemsMade : ci # cj => OwnedBy(ci) \cap OwnedBy(cj) = {}

\* an optimizer call without params and a preview call without params were
\* made and followed by another call, and the optimizer moved a seat
C16_Witness ==
    /\ Len(calls) = MaxCalls
    /\ \E c \in 1..(Len(calls) - 1) :
          /\ calls[c].kind = "autotune"
          /\ "params" \notin DOMAIN calls[c].body
          /\ heap[calls[c].items[1].seat] # heap[calls[c].items[2].seat]
    /\ \E c \in 1..(Len(calls) - 1) :
          /\ calls[c].kind = "preview"
          /\ "params" \notin DOMAIN calls[c].body

----------------------------------------------------------------------------
(* C22 *)

\* C22: every part split_length returns for MAX_PANEL is at most MAX_PANEL long.
C22_PartsWithinMax ==
    \A i \in DOMAIN panels : panels[i] <= MAX_PANEL

----------------------------------------------------------------------------
(* C21 *)

\* the requests that have their job key
Keyed == {r \in Confirms : confirms[r].pc # "new"}

\* C21: distinct confirm requests have distinct job keys and job directories,
\* and each file a request wrote still holds what that request wrote.
C21_JobsNeverShared ==
    /\ \A r1, r2 \in Keyed :
          r1 # r2 => /\ confirms[r1].job_key # confirms[r2].job_key
                     /\ confirms[r1].job_dir # confirms[r2].job_dir
    /\ \A r \in Confirms :
          confirms[r].pc = "done" =>
              \A f \in JOB_FILES : jobs[confirms[r].job_dir][f] = r

====
